---- MODULE Spec2Model ----
(***************************************************************************)
(* Model of the translation cache (src/core/cache.py, LyricsCache), of the *)
(* lookup and the background threads that use it (src/gui/app.py,          *)
(* _update_lyrics and _translate_lyrics), and of the time codec            *)
(* (src/utils/time_utils.py).                                              *)
(*                                                                         *)
(* A Python dict keeps insertion order, so the in-memory map is a sequence *)
(* of [k, v] records with distinct keys.  The persisted store is the       *)
(* pickle of that dict: the items in iteration order.  CPython switches    *)
(* threads between bytecodes, so add_lyrics is modelled one dict or file   *)
(* operation per step.                                                     *)
(***************************************************************************)
EXTENDS Integers, Sequences, FiniteSets, TLC

\* ------------------------------------------------------------------ bounds
NumThreads == 2
NumKeys == 3
MaxMaxSize == 1
MaxOldLines == 2
NumSongs == 2
MaxLines == 4
MaxBatch == 2
MaxQueue == 2

\* one song change each: the UI thread looks the song up and, on a miss,
\* starts one translate thread that calls add_lyrics once
Threads == 1..NumThreads
Keys == 1..NumKeys
\* a lyrics value is the list of translated lines of a batch: thread t
\* commits the list of its own batch, Batch(t); an entry written by an
\* earlier run holds one of OldVals
Batch(t) == <<t>>
OldVals == {[i \in 1..n |-> 0] : n \in 1..MaxOldLines}
None == <<>>
Songs == 1..NumSongs

VARIABLES
    cache,      \* LyricsCache.cache: sequence of [k, v], insertion order
    max_size,   \* LyricsCache.max_size
    file,       \* the store at cache_file: [kind, data]
    proc,       \* "up": instance constructed; "down": no process; "crashed"
    pc,         \* per thread: position in the lookup and in add_lyrics
    song_id,    \* per thread: argument song_id
    lyrics,     \* per thread: cached_lyrics of a hit, else argument lyrics
    it_used,    \* per thread: dict size recorded by iter(self.cache)
    victim,     \* per thread: key returned by next(iter(self.cache))
    buf,        \* per thread: bytes written to the open file, not yet flushed
    tpc,        \* time codec: "in", "shown" (formatted), "parsed", or "off"
    tin,        \* time codec: the input [kind, n, s]
    tstr,       \* time codec: the string returned by ms_to_min_sec
    tout,       \* time codec: the integer returned by time_str_to_ms
    entry,      \* which application runs: "package" (src/main.py) or
                \* "monolith" (app.py)
    library,    \* per song: the lyric lines the Spotify client returns
    tree,       \* the Treeview rows: sequence of [time, words, translated]
    selection,  \* index of the selected row, 0 for none
    current_song_id,  \* self.current_song_id, 0 for None
    playing,    \* song returned by the last poll, 0 for none
    progress_ms,      \* position returned by the last poll
    bpc,        \* per song: position of its translate thread
    futures,    \* per song: the finished futures, in completion order
    translated_lyrics,  \* per song: the list built from as_completed
    after_queue,  \* callbacks scheduled with root.after(0, ...), oldest first
    timer,      \* number of pending root.after(500, self.update_display)
    fetched     \* song the last poll asked the Lyric Source for, 0 for none

cacheVars == <<cache, max_size, file, proc, pc, song_id, lyrics, it_used,
               victim, buf>>
timeVars == <<tpc, tin, tstr, tout>>
viewVars == <<entry, library, tree, selection, current_song_id, playing,
              progress_ms>>
pipeVars == <<bpc, futures, translated_lyrics, after_queue>>
pollVars == <<timer, fetched>>
appVars == <<viewVars, pipeVars, pollVars>>
vars == <<cacheVars, timeVars, appVars>>

NoInput == [kind |-> "none", n |-> 0, s |-> <<>>]

\* ------------------------------------------------------------ dict helpers
DictKeys(d) == {d[i].k : i \in 1..Len(d)}

DictIndex(d, key) == CHOOSE i \in 1..Len(d) : d[i].k = key

\* dict.get(key): the value, or None
DictGet(d, key) ==
    IF key \in DictKeys(d) THEN d[DictIndex(d, key)].v ELSE None

\* d[key] = value: an existing key keeps its position, a new key goes last
DictSet(d, key, value) ==
    IF key \in DictKeys(d)
    THEN [d EXCEPT ![DictIndex(d, key)] = [k |-> key, v |-> value]]
    ELSE Append(d, [k |-> key, v |-> value])

\* d.pop(key) for a key that is present
DictPop(d, key) ==
    LET i == DictIndex(d, key)
    IN  SubSeq(d, 1, i - 1) \o SubSeq(d, i + 1, Len(d))

\* pickle.dump(dict): the items in iteration order
PickleDump(d) == d

\* pickle.load of a pickled dict: an empty dict filled item by item
RECURSIVE PickleLoad(_)
PickleLoad(items) ==
    IF items = <<>> THEN <<>>
    ELSE LET n == Len(items)
         IN  DictSet(PickleLoad(SubSeq(items, 1, n - 1)), items[n].k, items[n].v)

\* ------------------------------------------------------------ store kinds
Absent == [kind |-> "absent", data |-> <<>>]
EmptyFile == [kind |-> "empty", data |-> <<>>]
Pickled(d) == [kind |-> "pickle", data |-> PickleDump(d)]
\* bytes on which pickle.load raises EOFError / UnpicklingError / another
\* exception (ValueError, AttributeError, ...)
GarbageKinds == {"eof", "unpickling", "other"}
Garbage(kd) == [kind |-> kd, data |-> <<>>]

NoThreads ==
    /\ pc = [t \in Threads |-> "idle"]
    /\ song_id = [t \in Threads |-> 0]
    /\ lyrics = [t \in Threads |-> None]
    /\ it_used = [t \in Threads |-> 0]
    /\ victim = [t \in Threads |-> 0]
    /\ buf = [t \in Threads |-> <<>>]

TimeOff ==
    /\ tpc = "off"
    /\ tin = NoInput
    /\ tstr = <<>>
    /\ tout = 0

\* no window, no song polled yet, no translate thread
AppOff ==
    /\ entry = "package"
    /\ library = [s \in Songs |-> <<>>]
    /\ tree = <<>>
    /\ selection = 0
    /\ current_song_id = 0
    /\ playing = 0
    /\ progress_ms = 0
    /\ bpc = [s \in Songs |-> "none"]
    /\ futures = [s \in Songs |-> <<>>]
    /\ translated_lyrics = [s \in Songs |-> <<>>]
    /\ after_queue = <<>>
    /\ timer = 0
    /\ fetched = 0

\* ------------------------------------------------------------------- Init
\* The instance has been constructed on a store that was absent, or that an
\* earlier run left with one entry.
Init ==
    /\ max_size \in 1..MaxMaxSize
    /\ \E d \in {<<>>, <<[k |-> 1, v |-> <<0>>]>>} :
          /\ Len(d) <= max_size
          /\ file = (IF d = <<>> THEN Absent ELSE Pickled(d))
          /\ cache = PickleLoad(PickleDump(d))
    /\ proc = "up"
    /\ NoThreads
    /\ TimeOff
    /\ AppOff

\* ------------------------------------------------------------- get_lyrics
\* a lookup that refreshes recency: a hit moves the entry to the end
get_lyrics_lru(t, key) ==
    /\ proc = "up"
    /\ pc[t] = "idle"
    /\ song_id' = [song_id EXCEPT ![t] = key]
    /\ lyrics' = [lyrics EXCEPT ![t] = DictGet(cache, key)]
    /\ pc' = [pc EXCEPT ![t] = IF DictGet(cache, key) # <<>> THEN "hit"
                               ELSE "translating"]
    /\ cache' = IF key \in DictKeys(cache)
                THEN Append(DictPop(cache, key),
                            [k |-> key, v |-> DictGet(cache, key)])
                ELSE cache
    /\ UNCHANGED <<max_size, file, proc, it_used, victim, buf, timeVars, appVars>>

\* cached_lyrics = self.lyrics_cache.get_lyrics(song_id), on the UI thread:
\* a non-empty result is displayed, otherwise the translate thread starts
get_lyrics(t, key) ==
    /\ proc = "up"
    /\ pc[t] = "idle"
    /\ song_id' = [song_id EXCEPT ![t] = key]
    /\ lyrics' = [lyrics EXCEPT ![t] = DictGet(cache, key)]
    /\ pc' = [pc EXCEPT ![t] = IF DictGet(cache, key) # <<>> THEN "hit"
                               ELSE "translating"]
    /\ UNCHANGED <<cache, max_size, file, proc, it_used, victim, buf, timeVars, appVars>>

\* ------------------------------------------------------------- add_lyrics
\* the batch is complete; self.cache[song_id] = lyrics
add_lyrics_insert(t) ==
    /\ proc = "up"
    /\ pc[t] = "translating"
    /\ cache' = DictSet(cache, song_id[t], Batch(t))
    /\ lyrics' = [lyrics EXCEPT ![t] = Batch(t)]
    /\ pc' = [pc EXCEPT ![t] = "check"]
    /\ UNCHANGED <<max_size, file, proc, song_id, it_used, victim, buf, timeVars, appVars>>

\* if len(self.cache) > self.max_size:
add_lyrics_check(t) ==
    /\ proc = "up"
    /\ pc[t] = "check"
    /\ pc' = [pc EXCEPT ![t] = IF Len(cache) > max_size THEN "iter" ELSE "open"]
    /\ UNCHANGED <<cache, max_size, file, proc, song_id, lyrics, it_used,
                   victim, buf, timeVars, appVars>>

\* iter(self.cache): the iterator records the size of the dict
add_lyrics_iter(t) ==
    /\ proc = "up"
    /\ pc[t] = "iter"
    /\ it_used' = [it_used EXCEPT ![t] = Len(cache)]
    /\ pc' = [pc EXCEPT ![t] = "next"]
    /\ UNCHANGED <<cache, max_size, file, proc, song_id, lyrics, victim, buf,
                   timeVars, appVars>>

\* next(...): RuntimeError if the dict changed size since iter(),
\* StopIteration if it is empty, else the first key in insertion order
add_lyrics_next(t) ==
    /\ proc = "up"
    /\ pc[t] = "next"
    /\ IF Len(cache) # it_used[t] \/ Len(cache) = 0
       THEN /\ pc' = [pc EXCEPT ![t] = "raised"]
            /\ UNCHANGED victim
       ELSE /\ victim' = [victim EXCEPT ![t] = cache[1].k]
            /\ pc' = [pc EXCEPT ![t] = "pop"]
    /\ it_used' = [it_used EXCEPT ![t] = 0]
    /\ UNCHANGED <<cache, max_size, file, proc, song_id, lyrics, buf, timeVars, appVars>>

\* self.cache.pop(key): KeyError if the key is gone
add_lyrics_pop(t) ==
    /\ proc = "up"
    /\ pc[t] = "pop"
    /\ IF victim[t] \in DictKeys(cache)
       THEN /\ cache' = DictPop(cache, victim[t])
            /\ pc' = [pc EXCEPT ![t] = "open"]
       ELSE /\ pc' = [pc EXCEPT ![t] = "raised"]
            /\ UNCHANGED cache
    /\ victim' = [victim EXCEPT ![t] = 0]
    /\ UNCHANGED <<max_size, file, proc, song_id, lyrics, it_used, buf,
                   timeVars, appVars>>

\* save_cache: open(self.cache_file, 'wb') creates or truncates the store
save_cache_open(t) ==
    /\ proc = "up"
    /\ pc[t] = "open"
    /\ file' = EmptyFile
    /\ pc' = [pc EXCEPT ![t] = "dump"]
    /\ UNCHANGED <<cache, max_size, proc, song_id, lyrics, it_used, victim,
                   buf, timeVars, appVars>>

\* save_cache: pickle.dump(self.cache, f) into the file object's buffer
save_cache_dump(t) ==
    /\ proc = "up"
    /\ pc[t] = "dump"
    /\ buf' = [buf EXCEPT ![t] = PickleDump(cache)]
    /\ pc' = [pc EXCEPT ![t] = "close"]
    /\ UNCHANGED <<cache, max_size, file, proc, song_id, lyrics, it_used,
                   victim, timeVars, appVars>>

\* save_cache: leaving the with block flushes the buffer at offset 0 and
\* closes the file; add_lyrics returns
save_cache_close(t) ==
    /\ proc = "up"
    /\ pc[t] = "close"
    /\ file' = [kind |-> "pickle", data |-> buf[t]]
    /\ buf' = [buf EXCEPT ![t] = <<>>]
    /\ pc' = [pc EXCEPT ![t] = "done"]
    /\ UNCHANGED <<cache, max_size, proc, song_id, lyrics, it_used, victim,
                   timeVars, appVars>>

Next ==
    \/ \E t \in Threads, key \in Keys : get_lyrics(t, key)
    \/ \E t \in Threads : add_lyrics_insert(t)
    \/ \E t \in Threads : add_lyrics_check(t)
    \/ \E t \in Threads : add_lyrics_iter(t)
    \/ \E t \in Threads : add_lyrics_next(t)
    \/ \E t \in Threads : add_lyrics_pop(t)
    \/ \E t \in Threads : save_cache_open(t)
    \/ \E t \in Threads : save_cache_dump(t)
    \/ \E t \in Threads : save_cache_close(t)

\* one run of the application: the instance is constructed, the UI thread
\* looks songs up and the translate threads commit to the cache
Spec == Init /\ [][Next]_vars

\* a step of translate thread t inside add_lyrics
add_lyrics_step(t) ==
    \/ add_lyrics_insert(t)
    \/ add_lyrics_check(t)
    \/ add_lyrics_iter(t)
    \/ add_lyrics_next(t)
    \/ add_lyrics_pop(t)
    \/ save_cache_open(t)
    \/ save_cache_dump(t)
    \/ save_cache_close(t)

\* the same run under fair scheduling: a translate thread that can take a
\* step is not held back forever
SpecFair == Init /\ [][Next]_vars /\ \A t \in Threads : WF_vars(add_lyrics_step(t))

\* -------------------------------------------------------------- load_cache
\* The process ends (window closed or killed); the store stays as it is.
Exit ==
    /\ proc \in {"up", "crashed"}
    /\ proc' = "down"
    /\ cache' = <<>>
    /\ pc' = [t \in Threads |-> "idle"]
    /\ song_id' = [t \in Threads |-> 0]
    /\ lyrics' = [t \in Threads |-> None]
    /\ UNCHANGED <<max_size, file, it_used, victim, buf, timeVars, appVars>>

\* Between two runs the store is damaged: garbage bytes, a truncated file.
Corrupt ==
    /\ proc = "down"
    /\ file.kind \notin GarbageKinds
    /\ \E kd \in GarbageKinds : file' = Garbage(kd)
    /\ UNCHANGED <<cache, max_size, proc, pc, song_id, lyrics, it_used,
                   victim, buf, timeVars, appVars>>

\* __init__ and load_cache of a new instance on the same store
load_cache ==
    /\ proc = "down"
    /\ IF file.kind \in {"absent", "empty"}
       THEN \* not os.path.exists(...) or os.path.getsize(...) == 0
            /\ cache' = <<>>
            /\ proc' = "up"
            /\ UNCHANGED file
       ELSE IF file.kind = "pickle"
       THEN /\ cache' = PickleLoad(file.data)
            /\ proc' = "up"
            /\ UNCHANGED file
       ELSE IF file.kind \in {"eof", "unpickling"}
       THEN \* except (EOFError, pickle.UnpicklingError)
            /\ cache' = <<>>
            /\ file' = Absent
            /\ proc' = "up"
       ELSE \* any other exception leaves load_cache and __init__
            /\ cache' = <<>>
            /\ proc' = "crashed"
            /\ UNCHANGED file
    /\ UNCHANGED <<max_size, pc, song_id, lyrics, it_used, victim, buf,
                   timeVars, appVars>>

\* stores an earlier run that saved at least once can leave behind:
\* truncated to nothing by a kill inside save_cache, or the pickle of a map
LeftStores ==
    {EmptyFile}
    \cup {Pickled(<<[k |-> key, v |-> value]>>) : key \in Keys, value \in OldVals}
    \cup {Pickled(<<[k |-> ks[1], v |-> v1], [k |-> ks[2], v |-> v2]>>) :
            ks \in {kk \in Keys \X Keys : kk[1] # kk[2]},
            v1 \in OldVals, v2 \in OldVals}

InitLoad ==
    /\ max_size \in 1..MaxMaxSize
    /\ file \in LeftStores
    /\ cache = <<>>
    /\ proc = "down"
    /\ NoThreads
    /\ TimeOff
    /\ AppOff

NextLoad ==
    \/ Corrupt
    \/ load_cache
    \/ \E t \in Threads, key \in Keys : get_lyrics(t, key)
    \/ Exit

\* the application is started, and restarted, on a store left by an
\* earlier run or damaged since
SpecLoad == InitLoad /\ [][NextLoad]_vars

\* ------------------------------------------------------------- time codec
\* Strings are sequences of one-character strings.
Digits == <<"0", "1", "2", "3", "4", "5", "6", "7", "8", "9">>
IsDigit(c) == \E d \in 1..10 : Digits[d] = c
DigitVal(c) == (CHOOSE d \in 1..10 : Digits[d] = c) - 1

\* str(n) for n >= 0
RECURSIVE NatToStr(_)
NatToStr(n) ==
    IF n < 10 THEN <<Digits[n + 1]>>
    ELSE Append(NatToStr(n \div 10), Digits[(n % 10) + 1])

\* f"{n}"
IntToStr(n) == IF n < 0 THEN <<"-">> \o NatToStr(0 - n) ELSE NatToStr(n)

\* f"{n:02d}": zero padding up to width 2, the sign counted in the width
Format02d(n) ==
    IF n < 0 THEN (IF n > -10 THEN <<"-">> \o NatToStr(0 - n) ELSE IntToStr(n))
    ELSE IF n < 10 THEN <<"0">> \o NatToStr(n)
    ELSE NatToStr(n)

\* str.strip() of blanks
RECURSIVE Strip(_)
Strip(s) ==
    IF s = <<>> THEN s
    ELSE IF Head(s) = " " THEN Strip(Tail(s))
    ELSE IF s[Len(s)] = " " THEN Strip(SubSeq(s, 1, Len(s) - 1))
    ELSE s

\* value of a digit string, most significant digit first
RECURSIVE DigitsToNat(_)
DigitsToNat(s) ==
    IF s = <<>> THEN 0
    ELSE 10 * DigitsToNat(SubSeq(s, 1, Len(s) - 1)) + DigitVal(s[Len(s)])

\* int(s): blanks around, an optional sign, then one or more digits;
\* anything else raises ValueError
ParseInt(s) ==
    LET body == Strip(s)
        signed == body # <<>> /\ Head(body) \in {"-", "+"}
        digs == IF signed THEN Tail(body) ELSE body
    IN  IF digs # <<>> /\ \A i \in 1..Len(digs) : IsDigit(digs[i])
        THEN [exc |-> "none",
              val |-> IF signed /\ Head(body) = "-"
                      THEN 0 - DigitsToNat(digs) ELSE DigitsToNat(digs)]
        ELSE [exc |-> "ValueError", val |-> 0]

\* s.split(":")
RECURSIVE Split(_)
Split(s) ==
    IF \A i \in 1..Len(s) : s[i] # ":" THEN <<s>>
    ELSE LET i == CHOOSE j \in 1..Len(s) :
                      s[j] = ":" /\ \A h \in 1..(j - 1) : s[h] # ":"
         IN  <<SubSeq(s, 1, i - 1)>> \o Split(SubSeq(s, i + 1, Len(s)))

ZeroDisplay == <<"0", ":", "0", "0">>

\* ms_to_min_sec with the seconds rounded to the nearest second
ms_to_min_sec_rounding(in) ==
    LET conv == IF in.kind = "str" THEN ParseInt(in.s)
                ELSE IF in.kind = "int" THEN [exc |-> "none", val |-> in.n]
                ELSE [exc |-> "TypeError", val |-> 0]
        minutes == conv.val \div 60000
        seconds == ((conv.val % 60000) + 500) \div 1000
    IN  IF conv.exc \in {"ValueError", "TypeError"} THEN ZeroDisplay
        ELSE IntToStr(minutes) \o <<":">> \o Format02d(seconds)

\* ms_to_min_sec(ms): ms is an int, a str (converted with int()) or None
\* (None // 60000 raises TypeError)
ms_to_min_sec(in) ==
    LET conv == IF in.kind = "str" THEN ParseInt(in.s)
                ELSE IF in.kind = "int" THEN [exc |-> "none", val |-> in.n]
                ELSE [exc |-> "TypeError", val |-> 0]
        minutes == conv.val \div 60000
        seconds == (conv.val % 60000) \div 1000
    IN  IF conv.exc \in {"ValueError", "TypeError"} THEN ZeroDisplay
        ELSE IntToStr(minutes) \o <<":">> \o Format02d(seconds)

\* time_str_to_ms that reads the first two fields and takes an empty or
\* non-numeric field as 0
time_str_to_ms_lenient(time_str) ==
    LET parts == Split(time_str)
        field(i) == IF i <= Len(parts) /\ ParseInt(parts[i]).exc = "none"
                    THEN ParseInt(parts[i]).val ELSE 0
    IN  [exc |-> "none", val |-> field(1) * 60000 + field(2) * 1000]

\* time_str_to_ms(time_str): the result, and the exception that leaves the
\* function, if any
time_str_to_ms(time_str) ==
    LET parts == Split(time_str)
        ints == [i \in 1..Len(parts) |-> ParseInt(parts[i])]
        exc == IF \E i \in 1..Len(parts) : ints[i].exc # "none" THEN "ValueError"
               ELSE IF Len(parts) # 2 THEN "ValueError"
               ELSE "none"
    IN  IF exc \in {"ValueError", "TypeError"} THEN [exc |-> "none", val |-> 0]
        ELSE IF exc # "none" THEN [exc |-> exc, val |-> 0]
        ELSE [exc |-> "none", val |-> ints[1].val * 60000 + ints[2].val * 1000]

\* inputs of the codec
MaxMinutes == 99
NegMinutes == 2
MaxStrLen == 4
SubSeconds == {0, 1, 500, 999}
Alphabet == {"0", "1", "5", ":", "-", " ", "x"}

RECURSIVE StringsOfLen(_)
StringsOfLen(n) ==
    IF n = 0 THEN {<<>>}
    ELSE {Append(s, c) : s \in StringsOfLen(n - 1), c \in Alphabet}

Strings(len) == UNION {StringsOfLen(n) : n \in 0..len}

MsInputs(minutes) ==
    {m * 60000 + sec * 1000 + sub :
        m \in (0 - NegMinutes)..minutes, sec \in 0..59, sub \in SubSeconds}

InitTime ==
    /\ max_size = 0
    /\ cache = <<>>
    /\ file = Absent
    /\ proc = "down"
    /\ pc = [t \in Threads |-> "idle"]
    /\ song_id = [t \in Threads |-> 0]
    /\ lyrics = [t \in Threads |-> None]
    /\ it_used = [t \in Threads |-> 0]
    /\ victim = [t \in Threads |-> 0]
    /\ buf = [t \in Threads |-> <<>>]
    /\ tpc = "in"
    \* "int", "str", "none": an argument of ms_to_min_sec; "display": an
    \* argument of time_str_to_ms
    /\ \/ \E ms \in MsInputs(MaxMinutes) : tin = [kind |-> "int", n |-> ms, s |-> <<>>]
       \/ \E kd \in {"str", "display"}, str \in Strings(MaxStrLen) :
             tin = [kind |-> kd, n |-> 0, s |-> str]
       \/ tin = NoInput
    /\ tstr = <<>>
    /\ tout = 0
    /\ AppOff

\* tstr = ms_to_min_sec(tin)
ToDisplay ==
    /\ tpc = "in"
    /\ tin.kind # "display"
    /\ tstr' = ms_to_min_sec(tin)
    /\ tpc' = "shown"
    /\ UNCHANGED <<tin, tout, cacheVars, appVars>>

\* tout = time_str_to_ms(...) of the display string, or of the input string
ToMillis ==
    /\ \/ tpc = "shown"
       \/ tpc = "in" /\ tin.kind = "display"
    /\ LET r == time_str_to_ms(IF tpc = "shown" THEN tstr ELSE tin.s)
       IN  /\ tout' = r.val
           /\ tpc' = IF r.exc = "none" THEN "parsed" ELSE "raised"
    /\ UNCHANGED <<tin, tstr, cacheVars, appVars>>

NextTime == ToDisplay \/ ToMillis

SpecTime == InitTime /\ [][NextTime]_vars

\* ------------------------------------------------------------ lyrics view
\* A lyric line is a dict: keys is the set of keys it has.  A text (words,
\* a translation, a column value) is a sequence of tokens, "" being <<>>.
Line(start, text) ==
    [keys |-> {"startTimeMs", "words"}, startTimeMs |-> start, words |-> text]

Row(time, text, translation) ==
    [time |-> time, words |-> text, translated |-> translation]

\* an int argument of ms_to_min_sec
MsArg(ms) == [kind |-> "int", n |-> ms, s |-> <<>>]

\* insert_message("0:00", message)
insert_message(message) == <<Row(ZeroDisplay, <<message>>, <<>>)>>

\* display_lyrics: one row per line that has both keys, the others skipped
RECURSIVE display_lyrics(_)
display_lyrics(lyrics_data) ==
    IF lyrics_data = <<>> THEN <<>>
    ELSE LET lyric == Head(lyrics_data)
         IN  (IF "startTimeMs" \notin lyric.keys \/ "words" \notin lyric.keys
              THEN <<>>
              ELSE <<Row(ms_to_min_sec(MsArg(lyric.startTimeMs)), lyric.words, <<>>)>>)
             \o display_lyrics(Tail(lyrics_data))

\* the loop of update_current_lyric from row i on: the last row whose
\* displayed time, read back as minutes and seconds, is <= current_position
RECURSIVE ScanRows(_, _, _, _)
ScanRows(rows, i, current_position, last_index) ==
    IF i > Len(rows) THEN last_index
    ELSE LET time_parts == Split(rows[i].time)
         IN  IF Len(time_parts) # 2
             THEN ScanRows(rows, i + 1, current_position, last_index)
             ELSE LET minutes == ParseInt(time_parts[1])
                      seconds == ParseInt(time_parts[2])
                      start_time == minutes.val * 60000 + seconds.val * 1000
                  IN  IF minutes.exc # "none" \/ seconds.exc # "none"
                      THEN \* except (ValueError, IndexError): continue
                           ScanRows(rows, i + 1, current_position, last_index)
                      ELSE IF start_time <= current_position
                      THEN ScanRows(rows, i + 1, current_position, i)
                      ELSE \* break
                           last_index

\* update_current_lyric: the selection after the call; it is set only when
\* the loop found a row
update_current_lyric(rows, current_position, selected) ==
    LET last_index == ScanRows(rows, 1, current_position, 0)
    IN  IF last_index # 0 THEN last_index ELSE selected

\* update_translations for a non-empty list: every row takes the translation
\* of the first list entry with its displayed time and words, then the first
\* row takes the translation of the first list entry
update_translations(rows, translated) ==
    LET matches(i) ==
            {j \in 1..Len(translated) :
                /\ ms_to_min_sec(MsArg(translated[j].startTimeMs)) = rows[i].time
                /\ translated[j].words = rows[i].words}
        first(i) == CHOOSE j \in matches(i) : \A h \in matches(i) : j <= h
        looped == [i \in 1..Len(rows) |->
                     IF matches(i) = {} THEN rows[i]
                     ELSE [rows[i] EXCEPT !.translated = translated[first(i)].translated]]
    IN  IF rows = <<>> THEN rows
        ELSE [looped EXCEPT ![1].translated = translated[1].translated]

\* a translate thread that an exception has ended: raised by the song name
\* translation, by executor.submit, or by future.result()
Died == {"name_raised", "submit_raised", "result_raised"}

\* the first state of a translate thread
ThreadStart == IF entry = "monolith" THEN "name" ELSE "submit"

\* what sp.get_current_song() can give besides a song: a playback record
\* that has progress_ms but whose item is None or lacks a field (NoItem);
\* in _update_lyrics, an exception or a record whose item is None (Failing)
NoItem == 0 - 1
Failing == 0 - 2

\* the answers of sp.get_lyrics: the lines of the song, nothing, an exception
SourceAnswers == {"ok", "none", "raise"}

\* the lookup whose result is never used
CacheHit_never(cached_lyrics) == FALSE

\* if cached_lyrics:
CacheHit(cached_lyrics) == cached_lyrics # <<>>

\* _clear_display: the package clears the rows and shows the message, the
\* monolith resets the labels only; current_song_id is left as it is
clear_display ==
    /\ tree' = IF entry = "package" THEN insert_message("(No song playing)")
               ELSE tree
    /\ selection' = IF entry = "package" THEN 0 ELSE selection
    /\ fetched' = 0
    /\ UNCHANGED <<current_song_id, bpc, futures, translated_lyrics>>

\* _update_lyrics, then update_current_lyric(pos).  requery is what the
\* get_current_song of _update_lyrics gives: a song, 0 (nothing, or no
\* 'item' key) or Failing; source is the answer of get_lyrics.  At most one
\* translate thread per song is followed: a miss while the song's thread is
\* still running starts a thread that is not followed.
update_lyrics(pos, requery, source) ==
    LET asked == requery \in Songs
        song == IF asked THEN requery ELSE 1
        lyrics_data == IF asked /\ source = "ok" THEN library[song] ELSE <<>>
        shown == display_lyrics(lyrics_data)
        cached_lyrics == DictGet(cache, song)
        hit == CacheHit(cached_lyrics)
        rows == IF requery = Failing THEN insert_message("(Error)")
                ELSE IF requery = 0 THEN insert_message("(No song playing)")
                ELSE IF source = "raise" THEN insert_message("(Error)")
                ELSE IF lyrics_data = <<>>
                THEN insert_message("(No lyrics available)")
                ELSE IF hit THEN update_translations(shown, cached_lyrics)
                ELSE shown
        starts == /\ lyrics_data # <<>>
                  /\ ~hit
                  /\ bpc[song] \in {"none", "finished"} \cup Died
    IN  /\ fetched' = IF asked THEN song ELSE 0
        /\ tree' = rows
        /\ selection' = update_current_lyric(rows, pos, 0)
        /\ bpc' = IF starts THEN [bpc EXCEPT ![song] = ThreadStart] ELSE bpc
        /\ futures' = IF starts THEN [futures EXCEPT ![song] = <<>>] ELSE futures
        /\ translated_lyrics' =
               IF starts THEN [translated_lyrics EXCEPT ![song] = <<>>]
               ELSE translated_lyrics

\* the check that finds a song change on every tick
SongChanged_always(song) == TRUE

\* if song_id != self.current_song_id
SongChanged(song) == song # current_song_id

\* a translate thread of song s is between its start and its end
InFlight(s) == bpc[s] \in {"name", "submit", "running", "collected", "committed"}

\* the poll tick that waits for the translate threads to end
update_display_joining(player, pos, requery, source) ==
    /\ proc = "up"
    /\ timer = 1
    /\ \A s \in Songs : ~InFlight(s)
    /\ IF player = NoItem
       THEN /\ timer' = 0
            /\ fetched' = 0
            /\ UNCHANGED <<tree, selection, current_song_id, playing, progress_ms,
                           bpc, futures, translated_lyrics>>
       ELSE /\ timer' = 1
            /\ playing' = player
            /\ progress_ms' = IF player = 0 THEN 0 ELSE pos
            /\ IF player = 0
               THEN clear_display
               ELSE IF SongChanged(player)
               THEN /\ current_song_id' = player
                    /\ update_lyrics(pos, requery, source)
               ELSE /\ selection' = update_current_lyric(tree, pos, selection)
                    /\ fetched' = 0
                    /\ UNCHANGED <<tree, current_song_id, bpc, futures,
                                   translated_lyrics>>
    /\ UNCHANGED <<entry, library, after_queue, cacheVars, timeVars>>

\* One poll tick, update_display.  player is what the first
\* get_current_song gives: a song, 0 (it returned nothing, raised, or has no
\* progress_ms) or NoItem; pos is progress_ms.  With NoItem the exception of
\* _update_song_info leaves update_display before root.after(500, ...).
update_display(player, pos, requery, source) ==
    /\ proc = "up"
    /\ timer = 1
    /\ IF player = NoItem
       THEN \* current_song['item']['id'] raises in _update_song_info
            /\ timer' = 0
            /\ fetched' = 0
            /\ UNCHANGED <<tree, selection, current_song_id, playing, progress_ms,
                           bpc, futures, translated_lyrics>>
       ELSE /\ timer' = 1
            /\ playing' = player
            /\ progress_ms' = IF player = 0 THEN 0 ELSE pos
            /\ IF player = 0
               THEN clear_display
               ELSE IF SongChanged(player)
               THEN /\ current_song_id' = player
                    /\ update_lyrics(pos, requery, source)
               ELSE \* same song: update_current_lyric only
                    /\ selection' = update_current_lyric(tree, pos, selection)
                    /\ fetched' = 0
                    /\ UNCHANGED <<tree, current_song_id, bpc, futures,
                                   translated_lyrics>>
    /\ UNCHANGED <<entry, library, after_queue, cacheVars, timeVars>>

\* --------------------------------------------------- translation pipeline
\* GoogleTranslator.translate(text) when the service answers with a
\* translation
Translate(text) == <<"en">> \o text

\* the answers of the service to one request: a translation, an exception,
\* an empty response
ServiceAnswers == {"ok", "raise", "empty"}

\* monolith only: translated_song_name = translator.translate(song_name),
\* outside any try
translate_song_name(s, svc) ==
    /\ bpc[s] = "name"
    /\ bpc' = [bpc EXCEPT ![s] = IF svc = "raise" THEN "name_raised" ELSE "submit"]
    /\ UNCHANGED <<futures, translated_lyrics, after_queue, viewVars, pollVars,
                   cacheVars, timeVars>>

\* the pool is created and every line is submitted; submit raises when the
\* pool cannot schedule
translate_submit(s, scheduled) ==
    /\ bpc[s] = "submit"
    /\ bpc' = [bpc EXCEPT ![s] = IF scheduled THEN "running" ELSE "submit_raised"]
    /\ UNCHANGED <<futures, translated_lyrics, after_queue, viewVars, pollVars,
                   cacheVars, timeVars>>

\* the value of a finished future
Future(i, svc, exc, line, text) ==
    [idx |-> i, svc |-> svc, exc |-> exc,
     value |-> [startTimeMs |-> line.startTimeMs, words |-> line.words,
                translated |-> text]]

\* translate_line with the try/except around the service call removed
translate_line_unguarded(s, i, svc) ==
    /\ bpc[s] = "running"
    /\ i \in 1..Len(library[s])
    /\ \A j \in 1..Len(futures[s]) : futures[s][j].idx # i
    /\ LET line == library[s][i]
           done ==
               IF "words" \notin line.keys
               THEN Future(i, "uncalled", "KeyError", line, <<>>)
               ELSE IF svc = "raise"
               THEN Future(i, svc, "Exception", line, <<>>)
               ELSE LET translated_text == IF svc = "ok" THEN Translate(line.words)
                                           ELSE <<>>
                    IN  IF "startTimeMs" \notin line.keys
                        THEN Future(i, svc, "KeyError", line, <<>>)
                        ELSE Future(i, svc, "none", line, translated_text)
       IN  futures' = [futures EXCEPT ![s] = Append(@, done)]
    /\ UNCHANGED <<bpc, translated_lyrics, after_queue, viewVars, pollVars,
                   cacheVars, timeVars>>

\* a pool worker runs translate_line on line i, the service answering svc;
\* the future is finished, with the dict or with the exception that left
\* translate_line
translate_line(s, i, svc) ==
    /\ bpc[s] = "running"
    /\ i \in 1..Len(library[s])
    /\ \A j \in 1..Len(futures[s]) : futures[s][j].idx # i
    /\ LET line == library[s][i]
           done ==
               IF "words" \notin line.keys
               THEN \* original_text = line['words']
                    Future(i, "uncalled", "KeyError", line, <<>>)
               ELSE LET translated_text ==
                            IF svc = "ok" THEN Translate(line.words)
                            ELSE IF svc = "raise" THEN line.words
                            ELSE <<>>
                    IN  IF "startTimeMs" \notin line.keys
                        THEN \* 'startTimeMs': line['startTimeMs']
                             Future(i, svc, "KeyError", line, <<>>)
                        ELSE Future(i, svc, "none", line, translated_text)
       IN  futures' = [futures EXCEPT ![s] = Append(@, done)]
    /\ UNCHANGED <<bpc, translated_lyrics, after_queue, viewVars, pollVars,
                   cacheVars, timeVars>>

\* the collection that leaves out the lines whose service call raised
translate_result_skipping(s) ==
    /\ bpc[s] = "running"
    /\ Len(futures[s]) = Len(library[s])
    /\ IF \E j \in 1..Len(futures[s]) : futures[s][j].exc # "none"
       THEN /\ bpc' = [bpc EXCEPT ![s] = "result_raised"]
            /\ UNCHANGED translated_lyrics
       ELSE /\ translated_lyrics' =
                  [translated_lyrics EXCEPT ![s] =
                      LET kept == SelectSeq(futures[s], LAMBDA f : f.svc # "raise")
                      IN  [j \in 1..Len(kept) |-> kept[j].value]]
            /\ bpc' = [bpc EXCEPT ![s] = "collected"]
    /\ UNCHANGED <<futures, after_queue, viewVars, pollVars, cacheVars,
                   timeVars>>

\* [future.result() for future in as_completed(futures)], and the end of the
\* with block, which waits for every worker: the values in completion
\* order, or the exception of a future
translate_result(s) ==
    /\ bpc[s] = "running"
    /\ Len(futures[s]) = Len(library[s])
    /\ IF \E j \in 1..Len(futures[s]) : futures[s][j].exc # "none"
       THEN /\ bpc' = [bpc EXCEPT ![s] = "result_raised"]
            /\ UNCHANGED translated_lyrics
       ELSE /\ translated_lyrics' =
                  [translated_lyrics EXCEPT ![s] =
                      [j \in 1..Len(futures[s]) |-> futures[s][j].value]]
            /\ bpc' = [bpc EXCEPT ![s] = "collected"]
    /\ UNCHANGED <<futures, after_queue, viewVars, pollVars, cacheVars,
                   timeVars>>

\* add_lyrics run without another thread in between: insert, evict the
\* first key if over max_size, save
add_lyrics(d, key, value) ==
    LET inserted == DictSet(d, key, value)
    IN  IF Len(inserted) > max_size THEN DictPop(inserted, inserted[1].k)
        ELSE inserted

\* self.lyrics_cache.add_lyrics(song_id, translated_lyrics)
translate_add_lyrics(s) ==
    /\ bpc[s] = "collected"
    /\ cache' = add_lyrics(cache, s, translated_lyrics[s])
    /\ file' = Pickled(cache')
    /\ bpc' = [bpc EXCEPT ![s] = "committed"]
    /\ UNCHANGED <<max_size, proc, pc, song_id, lyrics, it_used, victim, buf,
                   futures, translated_lyrics, after_queue, viewVars, pollVars,
                   timeVars>>

\* package: self.root.after(0, lambda: update_translations(translated_lyrics));
\* monolith: callback(translated_lyrics), run by the translate thread itself
translate_callback(s) ==
    /\ bpc[s] = "committed"
    /\ IF entry = "package"
       THEN /\ Len(after_queue) < MaxQueue
            /\ after_queue' = Append(after_queue, translated_lyrics[s])
            /\ UNCHANGED tree
       ELSE /\ tree' = update_translations(tree, translated_lyrics[s])
            /\ UNCHANGED after_queue
    /\ bpc' = [bpc EXCEPT ![s] = "finished"]
    /\ UNCHANGED <<entry, library, selection, current_song_id, playing,
                   progress_ms, futures, translated_lyrics, pollVars, cacheVars,
                   timeVars>>

\* the Tk main loop runs the oldest scheduled callback
after_idle ==
    /\ after_queue # <<>>
    /\ tree' = update_translations(tree, Head(after_queue))
    /\ after_queue' = Tail(after_queue)
    /\ UNCHANGED <<entry, library, selection, current_song_id, playing,
                   progress_ms, bpc, futures, translated_lyrics, pollVars,
                   cacheVars, timeVars>>

\* line start times and poll positions, in milliseconds
StartTimes == {0, 500, 1000, 1500, 5000}
Positions == {0, 999, 1000, 1200, 4999, 6000}

\* line lists sorted ascending by start time
SortedLines(most) ==
    {[i \in 1..Len(starts) |-> Line(starts[i], <<"la">>)] :
        starts \in {q \in UNION {[1..n -> StartTimes] : n \in 0..most} :
                       \A i \in 1..(Len(q) - 1) : q[i] <= q[i + 1]}}

\* the window is up on an empty cache; song 1 has any sorted line list
InitView ==
    /\ max_size = 1
    /\ cache = <<>>
    /\ file = Absent
    /\ proc = "up"
    /\ NoThreads
    /\ TimeOff
    /\ entry \in {"package", "monolith"}
    /\ library \in {lib \in [Songs -> SortedLines(MaxLines)] :
                      \A s \in Songs \ {1} :
                          lib[s] = <<Line(1000, <<"la">>), Line(5000, <<"la">>)>>}
    /\ tree = <<>>
    /\ selection = 0
    /\ current_song_id = 0
    /\ playing = 0
    /\ progress_ms = 0
    /\ bpc = [s \in Songs |-> "none"]
    /\ futures = [s \in Songs |-> <<>>]
    /\ translated_lyrics = [s \in Songs |-> <<>>]
    /\ after_queue = <<>>
    /\ timer = 1
    /\ fetched = 0

NextView ==
    \E song \in 0..NumSongs, pos \in Positions : update_display(song, pos, song, "ok")

\* the polling loop alone: songs and positions change, no translation ends
SpecView == InitView /\ [][NextView]_vars

\* the text of line i of song s
Text(s, i) == <<Digits[s + 1], Digits[i + 1]>>

\* the dict keys a line can have: all, or one of the required ones missing
KeySets == {{"startTimeMs", "words"}, {"words"}, {"startTimeMs"}}

\* the line lists of song s up to MaxBatch lines, one second apart
BatchLines(s) ==
    {[i \in 1..Len(ks) |->
        [keys |-> ks[i], startTimeMs |-> (i - 1) * 1000, words |-> Text(s, i)]] :
        ks \in UNION {[1..n -> KeySets] : n \in 1..MaxBatch}}

\* the window is up on an empty cache; song 1 has lyrics, the others none
InitBatch ==
    /\ max_size = 1
    /\ cache = <<>>
    /\ file = Absent
    /\ proc = "up"
    /\ NoThreads
    /\ TimeOff
    /\ entry \in {"package", "monolith"}
    /\ library \in {lib \in [Songs -> BatchLines(1) \cup {<<>>}] :
                      /\ lib[1] # <<>>
                      /\ \A s \in Songs \ {1} : lib[s] = <<>>}
    /\ tree = <<>>
    /\ selection = 0
    /\ current_song_id = 0
    /\ playing = 0
    /\ progress_ms = 0
    /\ bpc = [s \in Songs |-> "none"]
    /\ futures = [s \in Songs |-> <<>>]
    /\ translated_lyrics = [s \in Songs |-> <<>>]
    /\ after_queue = <<>>
    /\ timer = 1
    /\ fetched = 0

NextBatch ==
    \/ \E song \in 0..NumSongs : update_display(song, 0, song, "ok")
    \/ \E s \in Songs, svc \in ServiceAnswers : translate_song_name(s, svc)
    \/ \E s \in Songs, scheduled \in BOOLEAN : translate_submit(s, scheduled)
    \/ \E s \in Songs, i \in 1..MaxBatch, svc \in ServiceAnswers :
          translate_line(s, i, svc)
    \/ \E s \in Songs : translate_result(s)
    \/ \E s \in Songs : translate_add_lyrics(s)
    \/ \E s \in Songs : translate_callback(s)
    \/ after_idle

\* one song is played and translated, the service and the pool answering
\* in every way
SpecBatch == InitBatch /\ [][NextBatch]_vars

\* well-formed lines: two for song 1, one for every other song
StaleLines(s) ==
    IF s = 1 THEN <<Line(0, Text(s, 1)), Line(1000, Text(s, 2))>>
    ELSE <<Line(0, Text(s, 1))>>

InitStale ==
    /\ max_size \in 1..MaxMaxSize
    /\ cache = <<>>
    /\ file = Absent
    /\ proc = "up"
    /\ NoThreads
    /\ TimeOff
    /\ entry \in {"package", "monolith"}
    /\ library = [s \in Songs |-> StaleLines(s)]
    /\ tree = <<>>
    /\ selection = 0
    /\ current_song_id = 0
    /\ playing = 0
    /\ progress_ms = 0
    /\ bpc = [s \in Songs |-> "none"]
    /\ futures = [s \in Songs |-> <<>>]
    /\ translated_lyrics = [s \in Songs |-> <<>>]
    /\ after_queue = <<>>
    /\ timer = 1
    /\ fetched = 0

NextStale ==
    \/ \E song \in 0..NumSongs : update_display(song, 0, song, "ok")
    \/ \E s \in Songs : translate_song_name(s, "ok")
    \/ \E s \in Songs : translate_submit(s, TRUE)
    \/ \E s \in Songs, i \in 1..2 : translate_line(s, i, "ok")
    \/ \E s \in Songs : translate_result(s)
    \/ \E s \in Songs : translate_add_lyrics(s)
    \/ \E s \in Songs : translate_callback(s)
    \/ after_idle

\* the played song changes while translate threads run; the service
\* translates every line
SpecStale == InitStale /\ [][NextStale]_vars

\* the window is up on an empty cache; song 1 has two well-formed lines,
\* the others none
InitTrack ==
    /\ max_size = 1
    /\ cache = <<>>
    /\ file = Absent
    /\ proc = "up"
    /\ NoThreads
    /\ TimeOff
    /\ entry \in {"package", "monolith"}
    /\ library = [s \in Songs |-> IF s = 1 THEN StaleLines(s) ELSE <<>>]
    /\ tree = <<>>
    /\ selection = 0
    /\ current_song_id = 0
    /\ playing = 0
    /\ progress_ms = 0
    /\ bpc = [s \in Songs |-> "none"]
    /\ futures = [s \in Songs |-> <<>>]
    /\ translated_lyrics = [s \in Songs |-> <<>>]
    /\ after_queue = <<>>
    /\ timer = 1
    /\ fetched = 0

\* a poll tick at position 0, whatever the client and the Lyric Source
\* give; the second request and the Lyric Source are asked only after a song
\* change, and the Lyric Source only when the second request gave a song
Tick ==
    \/ \E player \in {0, NoItem} : update_display(player, 0, 0, "ok")
    \/ \E player \in Songs :
          /\ ~SongChanged(player)
          /\ update_display(player, 0, player, "ok")
    \/ \E player \in Songs :
          /\ SongChanged(player)
          /\ \/ \E requery \in {0, Failing} : update_display(player, 0, requery, "ok")
             \/ \E requery \in Songs, source \in SourceAnswers :
                   update_display(player, 0, requery, source)

NextTrack ==
    \/ Tick
    \/ \E s \in Songs, svc \in {"ok", "raise"} : translate_song_name(s, svc)
    \/ \E s \in Songs, scheduled \in BOOLEAN : translate_submit(s, scheduled)
    \/ \E s \in Songs, i \in 1..2, svc \in {"ok", "raise"} : translate_line(s, i, svc)
    \/ \E s \in Songs : translate_result(s)
    \/ \E s \in Songs : translate_add_lyrics(s)
    \/ \E s \in Songs : translate_callback(s)
    \/ after_idle

\* one song with lyrics is tracked, left and tracked again while its
\* translate thread runs, the client, the Lyric Source, the service and the
\* pool answering in every way
SpecTrack == InitTrack /\ [][NextTrack]_vars

\* the window is up on an empty cache; every song has its own lines
InitPoll ==
    /\ max_size = 1
    /\ cache = <<>>
    /\ file = Absent
    /\ proc = "up"
    /\ NoThreads
    /\ TimeOff
    /\ entry \in {"package", "monolith"}
    /\ library = [s \in Songs |-> StaleLines(s)]
    /\ tree = <<>>
    /\ selection = 0
    /\ current_song_id = 0
    /\ playing = 0
    /\ progress_ms = 0
    /\ bpc = [s \in Songs |-> "none"]
    /\ futures = [s \in Songs |-> <<>>]
    /\ translated_lyrics = [s \in Songs |-> <<>>]
    /\ after_queue = <<>>
    /\ timer = 1
    /\ fetched = 0

\* positions of the poll loop specification
PollPositions == {0, 1000}

NextPoll ==
    \E player \in Songs \cup {0, NoItem}, pos \in PollPositions,
       requery \in Songs \cup {0, Failing}, source \in SourceAnswers :
        update_display(player, pos, requery, source)

\* the polling loop alone, the client and the Lyric Source answering in
\* every way
SpecPoll == InitPoll /\ [][NextPoll]_vars

\* ------------------------------------------------------------ cache claims
\* no add_lyrics call is between its insert and its return
Quiescent ==
    \A t \in Threads : pc[t] \in {"idle", "hit", "translating", "done", "raised"}

\* what a new instance would hold after load_cache on the current store
StoreView == IF file.kind = "pickle" THEN PickleLoad(file.data) ELSE <<>>

\* thread t returns from add_lyrics in this step
Returns(t) == pc[t] = "close" /\ pc'[t] = "done"

\* C1: whenever no add_lyrics call is in progress (after load_cache and
\* after every add_lyrics call), the in-memory map has at most max_size
\* entries.
C1_CacheBound == Quiescent => Len(cache) <= max_size

\* C2: an add_lyrics call whose size check finds the map over max_size
\* evicts exactly one entry, the first in insertion order, and an add whose
\* check finds the map within max_size evicts nothing.
C2_FifoEviction ==
    [][\A t \in Threads :
         /\ (pc[t] \in {"iter", "next", "pop"} /\ pc'[t] # pc[t])
              => \/ pc[t] = "iter" /\ pc'[t] = "next" /\ cache' = cache
                 \/ pc[t] = "next" /\ pc'[t] = "pop" /\ cache' = cache
                 \/ pc[t] = "pop" /\ pc'[t] = "open" /\ cache' = Tail(cache)
         /\ (pc[t] = "check" /\ pc'[t] = "open")
              => Len(cache) <= max_size /\ cache' = cache]_vars

\* C3: get_lyrics changes neither the in-memory map (entries and their
\* order) nor the store, for a present and for an absent id.
C3_GetIsPure ==
    [][(\E t \in Threads, key \in Keys : get_lyrics(t, key))
          => UNCHANGED <<cache, file>>]_vars

\* C3 witness: a lookup hit the older of two loaded entries, and that entry
\* is still the first of the map.
C3_Witness ==
    \E t \in Threads :
        /\ pc[t] = "hit"
        /\ Len(cache) = 2
        /\ cache[1].k = song_id[t]
        /\ lyrics[t] = cache[1].v

\* C4: when an add_lyrics call returns and no other add is running, the
\* store holds exactly the in-memory map.
C4_PersistOnAdd ==
    [][\A t \in Threads :
         (Returns(t) /\ \A u \in Threads \ {t} :
                           pc[u] \in {"idle", "hit", "translating", "done", "raised"})
            => file' = Pickled(cache')]_vars

\* C5: whenever no add is in progress, for every add_lyrics(id, lines) that
\* has returned and whose entry is still in the in-memory map, a new
\* instance loading the store gets lines for id.
C5_RoundTrip ==
    Quiescent =>
        \A t \in Threads :
            (pc[t] = "done" /\ DictGet(cache, song_id[t]) = lyrics[t])
                => DictGet(StoreView, song_id[t]) = lyrics[t]

\* C6: load_cache on a store that is present and corrupt does not raise,
\* deletes the store and leaves the in-memory map empty.
C6_CorruptionRecovery ==
    [][(proc = "down" /\ proc' # "down" /\ file.kind \in GarbageKinds)
          => (proc' = "up" /\ file' = Absent /\ cache' = <<>>)]_vars

\* C7: with add_lyrics called from several threads, in every interleaving
\* no add raises, and once all adds have returned the store equals the
\* in-memory map.
C7_Serialized ==
    /\ \A t \in Threads : pc[t] # "raised"
    /\ (Quiescent /\ \E t \in Threads : pc[t] = "done") => StoreView = cache

\* ------------------------------------------------------- time codec claims
\* C8: for an integer ms in [0, 5999999],
\* time_str_to_ms(ms_to_min_sec(ms)) = (ms // 1000) * 1000.
C8_RoundTrip ==
    (tpc = "parsed" /\ tin.kind = "int" /\ tin.n >= 0 /\ tin.n <= 5999999)
        => tout = (tin.n \div 1000) * 1000

\* C8 witness: the largest ms of the range went through both conversions.
C8_Witness ==
    /\ tpc = "parsed"
    /\ tin.kind = "int" /\ tin.n = 5999999
    /\ tstr = <<"9", "9", ":", "5", "9">>
    /\ tout = 5999000

\* a negative integer, given as an int or as a str
NegativeInput ==
    \/ tin.kind = "int" /\ tin.n < 0
    \/ tin.kind = "str" /\ ParseInt(tin.s).exc = "none" /\ ParseInt(tin.s).val < 0

\* None, or a str that int() rejects
NonNumericInput ==
    \/ tin.kind = "none"
    \/ tin.kind = "str" /\ ParseInt(tin.s).exc # "none"

\* C9: for every negative and every non-numeric input ms_to_min_sec returns
\* "0:00".
C9_FailsClosed ==
    (tpc \in {"shown", "parsed"} /\ tin.kind # "display"
        /\ (NegativeInput \/ NonNumericInput))
        => tstr = ZeroDisplay

\* a field is numeric: blanks, an optional sign, one or more digits, blanks
IsNumericField(f) ==
    \E a \in 1..Len(f), b \in 1..Len(f) :
        /\ a <= b
        /\ \A h \in a..b : IsDigit(f[h])
        /\ \A h \in (b + 1)..Len(f) : f[h] = " "
        /\ \A h \in 1..(a - 1) : f[h] = " " \/ (h = a - 1 /\ f[h] \in {"-", "+"})

\* no colon, more than one colon, or an empty or non-numeric field
Malformed(s) ==
    LET colons == {i \in 1..Len(s) : s[i] = ":"}
    IN  \/ Cardinality(colons) # 1
        \/ \E c \in colons :
              \/ ~IsNumericField(SubSeq(s, 1, c - 1))
              \/ ~IsNumericField(SubSeq(s, c + 1, Len(s)))

\* C10: for every malformed string time_str_to_ms returns 0 and does not
\* raise.
C10_MalformedYieldsZero ==
    (tin.kind = "display" /\ tpc # "in" /\ Malformed(tin.s))
        => (tpc = "parsed" /\ tout = 0)

\* C10 witness: a string with two colons whose first two fields are numeric
\* was parsed.
C10_Witness ==
    /\ tpc = "parsed"
    /\ tin.kind = "display"
    /\ tin.s = <<"1", ":", "5", ":">>
    /\ tout = 0

\* ----------------------------------------------------- lyrics view claims
\* activeLine(lines, position): the index of the last line in list order
\* whose start time is <= position, 0 when there is none
ActiveLine(lines, position) ==
    LET started == {i \in 1..Len(lines) : lines[i].startTimeMs <= position}
    IN  IF started = {} THEN 0
        ELSE CHOOSE i \in started : \A j \in started : j <= i

\* a poll has returned a song and the view shows that song
Ticked == playing # 0 /\ playing = current_song_id

\* the selected lyric line: a selected message row is not a line
SelectedLine == IF library[current_song_id] = <<>> THEN 0 ELSE selection

WholeSeconds(lines) == \A i \in 1..Len(lines) : lines[i].startTimeMs % 1000 = 0

\* C11: after a poll tick at position p on a line list sorted by start time
\* (in milliseconds), if some line has start <= p then the selected row is
\* the last line in list order with start <= p.
C11_ActiveLine ==
    (Ticked /\ ActiveLine(library[playing], progress_ms) # 0)
        => selection = ActiveLine(library[playing], progress_ms)

\* C12: after every poll tick, whatever was selected on earlier ticks, the
\* selected line is activeLine(lines, position) of that tick, none when the
\* position is before the first line or the list is empty (stated for line
\* lists with whole-second start times, which the displayed time keeps).
C12_PureOfTick ==
    (Ticked /\ WholeSeconds(library[playing]))
        => SelectedLine = ActiveLine(library[playing], progress_ms)

\* ------------------------------------------------------- pipeline claims
WellFormed(line) == {"startTimeMs", "words"} \subseteq line.keys

AllWellFormed(lines) == \A i \in 1..Len(lines) : WellFormed(lines[i])

\* the thread of song s has built its list / has returned from add_lyrics
Collected(s) == bpc[s] \in {"collected", "committed", "finished"}
Committed(s) == bpc[s] \in {"committed", "finished"}

\* entry j of the list is made from line j, for every j
SameOrder(translated, lines) ==
    /\ Len(translated) = Len(lines)
    /\ \A j \in 1..Len(lines) :
          /\ translated[j].startTimeMs = lines[j].startTimeMs
          /\ translated[j].words = lines[j].words

\* C13: for any completion order of the per-line calls, the list the batch
\* produces has the order of the input lines, and so has the list stored in
\* the cache for that song.
C13_OrderPreserved ==
    \A s \in Songs :
        /\ Collected(s) => SameOrder(translated_lyrics[s], library[s])
        /\ Committed(s) => SameOrder(DictGet(cache, s), library[s])

\* C14: when the service raises for some lines of a song, no future fails,
\* the batch is not aborted and is committed to the cache as collected; a
\* line whose call raised has translated = its original text, a line whose
\* call succeeded has the service's translation.
C14_FailureIsolation ==
    \A s \in Songs :
        /\ \A j \in 1..Len(futures[s]) :
              LET f == futures[s][j]
                  line == library[s][f.idx]
              IN  (WellFormed(line) /\ f.svc \in {"raise", "ok"})
                     => /\ f.exc = "none"
                        /\ f.value.translated =
                              (IF f.svc = "raise" THEN line.words
                               ELSE Translate(line.words))
        /\ AllWellFormed(library[s]) => bpc[s] # "result_raised"
        /\ Committed(s)
              => DictGet(cache, s) = [j \in 1..Len(futures[s]) |-> futures[s][j].value]

\* C14 witness: a committed batch in which the service raised for one line
\* and translated another.
C14_Witness ==
    \E s \in Songs :
        /\ Committed(s)
        /\ \E j, h \in 1..Len(futures[s]) :
              futures[s][j].svc = "raise" /\ futures[s][h].svc = "ok"

\* C15: a line for which the service returns an empty response has
\* translated = its original text.
C15_EmptyFallback ==
    \A s \in Songs : \A j \in 1..Len(futures[s]) :
        LET f == futures[s][j]
            line == library[s][f.idx]
        IN  (WellFormed(line) /\ f.svc = "empty")
               => f.value.translated = line.words

\* C16: the list committed for a batch of N well-formed lines has exactly N
\* entries, and every input line is in it exactly once with its start time
\* and text unchanged.
C16_OneToOne ==
    \A s \in Songs :
        (AllWellFormed(library[s]) /\ Committed(s))
           => LET stored == DictGet(cache, s)
                  N == Len(library[s])
              IN  /\ Len(stored) = N
                  /\ \E perm \in [1..N -> 1..N] :
                        /\ \A i, j \in 1..N : perm[i] = perm[j] => i = j
                        /\ \A j \in 1..N :
                              /\ stored[j].startTimeMs = library[s][perm[j]].startTimeMs
                              /\ stored[j].words = library[s][perm[j]].words

\* C16 witness: a committed batch of two lines, one of them a line whose
\* service call raised, stored in the reverse of the input order.
C16_Witness ==
    \E s \in Songs :
        /\ AllWellFormed(library[s])
        /\ Committed(s)
        /\ Len(futures[s]) = 2
        /\ futures[s][1].idx = 2
        /\ \E j \in 1..2 : futures[s][j].svc = "raise"

\* C17: when one line of a song lacks a required key and the others are
\* well-formed, the song's translate thread is not aborted by that line.
C17_MalformedIsolation ==
    \A s \in Songs :
        (/\ Cardinality({i \in 1..Len(library[s]) : ~WellFormed(library[s][i])}) = 1
         /\ Len(library[s]) > 1)
           => bpc[s] # "result_raised"

\* C18: a failure of the song name translation does not end the translate
\* thread before the lines are translated.
C18_NameBestEffort == \A s \in Songs : bpc[s] # "name_raised"

\* the view shows a message row, not lyric rows
ShowsMessage ==
    \E i \in 1..Len(tree) :
        tree[i].words \in {<<"(No lyrics available)">>, <<"(Error)">>}

\* C19: once the translate thread of the shown song (all lines well-formed)
\* has died and nothing is left scheduled, the view shows an error or
\* "(No lyrics available)", not the untranslated rows it would show forever.
C19_FailureSurfaced ==
    \A s \in Songs :
        (/\ bpc[s] \in Died
         /\ AllWellFormed(library[s])
         /\ current_song_id = s /\ playing = s
         /\ after_queue = <<>>)
           => ShowsMessage

\* the texts of the lines of song s
OwnWords(s) == {library[s][i].words : i \in 1..Len(library[s])}

\* C20: no displayed row of the tracked song carries a translation made by
\* the batch of another song: its translation is empty, or the translation
\* or the text of a line of the tracked song.
C20_StaleDiscarded ==
    current_song_id # 0 =>
        \A i \in 1..Len(tree) :
            tree[i].words \in OwnWords(current_song_id)
               => tree[i].translated \in
                     {<<>>} \cup OwnWords(current_song_id)
                     \cup {Translate(w) : w \in OwnWords(current_song_id)}

\* -------------------------------------------------------- poll loop claims
\* C21: the poll loop never waits on translation.  A tick that starts the
\* translate thread of a song ends with the thread at its first step, no
\* translation call having returned, and with the next tick scheduled; and
\* while a translate thread is in flight the scheduled tick can run.
C21_PollNeverWaits ==
    /\ [](\A s \in Songs : (InFlight(s) /\ timer = 1) => ENABLED Tick)
    /\ [][\A s \in Songs :
             (bpc'[s] # bpc[s] /\ Tick)
                => /\ bpc'[s] = ThreadStart
                   /\ futures'[s] = <<>>
                   /\ timer' = 1]_vars

\* a tick of the tracked song has run while its translate thread is in
\* flight
C21_Witness ==
    \E s \in Songs :
        /\ InFlight(s)
        /\ bpc[s] # ThreadStart
        /\ playing = s /\ current_song_id = s
        /\ fetched = 0

\* C22: the lyric rows are written only by the UI thread: every step that
\* changes the rows is a poll tick or a callback run by the Tk main loop,
\* never a step of a translate thread.
C22_UiThreadOnly ==
    [][tree' # tree => (after_idle \/ Tick)]_vars

\* C23: no re-fetch on the same track.  A tick on which the client reports
\* the tracked id asks the Lyric Source for nothing, starts no translate
\* thread and leaves the rows, the cache and the tracked id as they are; a
\* lyric request is made and a translate thread is started only by a tick
\* whose reported id differs from the tracked id.
C23_NoRefetch ==
    [][/\ (playing' # 0 /\ playing' = current_song_id /\ Tick)
              => /\ fetched' = 0
                 /\ UNCHANGED <<tree, cache, bpc, futures, current_song_id>>
       /\ (fetched' # 0 /\ Tick) => playing' # current_song_id
       /\ \A s \in Songs :
              (bpc'[s] = ThreadStart /\ bpc[s] # ThreadStart)
                 => (Tick /\ playing' # current_song_id)]_vars

\* the tracked song was polled again, its rows are shown, nothing is cached
\* for it and its translate thread has died: nothing was fetched
C23_Witness ==
    \E s \in Songs :
        /\ playing = s /\ current_song_id = s
        /\ fetched = 0
        /\ tree # <<>>
        /\ DictGet(cache, s) = <<>>
        /\ bpc[s] \in Died

\* rows with the translation column emptied
Untranslated(rows) ==
    [i \in 1..Len(rows) |-> [rows[i] EXCEPT !.translated = <<>>]]

\* C24: Tracking -> Idle -> Tracking.  After every tick that reports a
\* track that has lyric lines, the rows on display are the lines of that
\* track, also when the tick before reported no track and the track is the
\* one that was tracked before.
C24_IdleThenTracking ==
    \A s \in Songs :
        (playing = s /\ library[s] # <<>>)
           => Untranslated(tree) = display_lyrics(library[s])

\* C25: the polling loop never dies: after every tick, whatever the client
\* and the Lyric Source gave, one next tick is scheduled.
C25_LoopNeverDies == timer = 1

\* the rows a failed lyric update leaves: the Lyric Source or the second
\* client request raised, or the second client request returned nothing
FailedRows == {insert_message("(Error)"), insert_message("(No song playing)")}

\* C26: the lyric fetch is retried.  When the lyric update of the tracked
\* song S failed and a later tick reports S again, with the client and the
\* Lyric Source answering, that tick fetches the lines of S and shows them.
C26_FetchRetried ==
    [][\A s \in Songs, pos \in PollPositions :
          (/\ current_song_id = s
           /\ playing = s
           /\ tree \in FailedRows
           /\ update_display(s, pos, s, "ok"))
             => /\ fetched' = s
                /\ Untranslated(tree') = display_lyrics(library[s])]_vars

\* the message rows of the view
MessageRows ==
    {insert_message("(Error)"), insert_message("(No song playing)"),
     insert_message("(No lyrics available)")}

\* C29: the displayed lyrics are those of the tracked song: when lyric rows
\* are on display after a tick, they are the lines the Lyric Source has for
\* the tracked id.
C29_RowsOfTrackedSong ==
    \A s \in Songs :
        (current_song_id = s /\ tree # <<>> /\ tree \notin MessageRows)
           => Untranslated(tree) = display_lyrics(library[s])

\* C27: a cache hit short-circuits translation.  When a tick detects a
\* song change, fetches the lines of a track and the cache has an entry for
\* that track's id, no translate thread is started, no service call is
\* made, and every row shows a translation of the cached entry.
C27_CacheHitSkipsTranslation ==
    [][(/\ fetched' # 0
        /\ DictGet(cache, fetched') # <<>>
        /\ tree' \notin MessageRows
        /\ Tick)
          => /\ UNCHANGED <<bpc, futures, translated_lyrics, after_queue, cache>>
             /\ \A i \in 1..Len(tree') :
                    \E j \in 1..Len(DictGet(cache, fetched')) :
                        tree'[i].translated = DictGet(cache, fetched')[j].translated]_vars

\* package: the rows of the tracked song carry translations while the
\* callback of its batch has not run yet: they were taken from the cache
C27_Witness ==
    \E s \in Songs :
        /\ entry = "package"
        /\ after_queue # <<>>
        /\ current_song_id = s /\ playing = s /\ fetched = s
        /\ DictGet(cache, s) # <<>>
        /\ bpc[s] = "finished"
        /\ tree # <<>>
        /\ \A i \in 1..Len(tree) : tree[i].translated # <<>>

\* C30: row-wise translation correctness.  Once the batch of the displayed
\* song has been applied to its rows, every row shows the translation of
\* the batch entry that has the row's start time and text.
C30_RowWise ==
    \A s \in Songs :
        (/\ current_song_id = s
         /\ bpc[s] = "finished"
         /\ after_queue = <<>>
         /\ tree # <<>>
         /\ Untranslated(tree) = display_lyrics(library[s]))
           => \A i \in 1..Len(tree) :
                  \E j \in 1..Len(translated_lyrics[s]) :
                      /\ ms_to_min_sec(MsArg(translated_lyrics[s][j].startTimeMs))
                            = tree[i].time
                      /\ translated_lyrics[s][j].words = tree[i].words
                      /\ translated_lyrics[s][j].translated = tree[i].translated

\* C28: batch completion.  Under fair scheduling a translate thread whose
\* batch is complete (every service call has returned or raised) eventually
\* returns from add_lyrics with its entry committed and saved, which is
\* when it posts its update and ends.
C28_BatchCompletes ==
    \A t \in Threads : (pc[t] = "translating") ~> (pc[t] = "done")

====
